---- MODULE Spec2Model ----
(***************************************************************************)
(* Model of the frame relay server of src/app.py: the process-wide frame   *)
(* store (latest_frame, stream_active, last_frame_time, frame_lock), the   *)
(* oil spill alert state (oil_spill_detected, oil_spill_history) and the   *)
(* request handlers that run over them, one thread per request.            *)
(***************************************************************************)
EXTENDS Integers, Sequences, FiniteSets, TLC

\* ---------------------------------------------------------------- bounds
MaxTime == 3
MaxSeqUploads == 5
MaxUploads == 3
MaxPollUploads == 2
MaxViewUploads == 2
MaxApiUploads == 3
MaxCtlUploads == 2
MaxChunks == 2
MaxPolls == 2

\* ------------------------------------------------------------ value sets
Uploaders == {"u1", "u2"}
Sessions == {"s1", "s2"}
NoFrame == "None"
Frames == {"A", "B"}
camera_password == "secret"
AuthHeaders == {"secret", "wrong", "absent"}
Bodies == {"jpgA", "jpgB", "junk", "empty"}
SpillHeaders == {"true", "false", "absent"}
Requests == [auth : AuthHeaders, body : Bodies, spill : SpillHeaders]
ValidRequests == {r \in Requests : r.auth = camera_password /\ r.body \in {"jpgA", "jpgB"}}
NoRequest == [auth |-> "-", body |-> "-", spill |-> "-"]
NoLock == "free"
None == <<>>

VARIABLES
  latest_frame, stream_active, last_frame_time,
  oil_spill_detected, oil_spill_history, frame_lock,
  now,
  upc, request, frame, spill_detected, response,
  gpc, chunks,
  spc, current_time, frame_age, status_json,
  frame_response, control_response, control_request,
  summary_json, events_json,
  rises, nreq, polls, inactive_seen, cond_false, pre, log

store == <<latest_frame, stream_active, last_frame_time>>
alert == <<oil_spill_detected, oil_spill_history>>
shared == <<latest_frame, stream_active, last_frame_time, oil_spill_detected, oil_spill_history>>
uplocals == <<upc, request, frame, spill_detected, response>>
genvars == <<gpc, chunks, inactive_seen, cond_false>>
statvars == <<spc, current_time, frame_age, status_json, polls>>
respvars == <<frame_response, control_response, control_request>>
apivars == <<summary_json, events_json>>
observers == <<pre, log>>
vars == <<latest_frame, stream_active, last_frame_time, oil_spill_detected,
          oil_spill_history, frame_lock, now, upc, request, frame,
          spill_detected, response, gpc, chunks, spc, current_time,
          frame_age, status_json, frame_response, control_response,
          control_request, summary_json, events_json,
          rises, nreq, polls, inactive_seen, cond_false, pre, log>>

\* --------------------------------------------------------- codec adapter
\* cv2.imdecode: a frame for a JPEG body, None for bytes that are no image;
\* an empty buffer makes it raise cv2.error.
imdecode_raises(body) == body = "empty"

imdecode(body) ==
  CASE body = "jpgA" -> "A"
    [] body = "jpgB" -> "B"
    [] OTHER -> NoFrame

\* cv2.imencode('.jpg', f) followed by tobytes()
imencode(f) ==
  CASE f = "A" -> "jpgA"
    [] f = "B" -> "jpgB"
    [] OTHER -> "jpg?"

NoControl == [op |-> "-", password |-> "-"]

NoSummary == [current_status |-> "-", total_events |-> 0, last_detection |-> None]

NoStatus == [stream_active |-> FALSE, last_frame_time |-> 0, frame_age_seconds |-> None,
             server_time |-> 0, oil_spill_detected |-> FALSE, oil_spill_events |-> 0]

Init ==
  /\ latest_frame = NoFrame
  /\ stream_active = FALSE
  /\ last_frame_time = 0
  /\ oil_spill_detected = FALSE
  /\ oil_spill_history = <<>>
  /\ frame_lock = NoLock
  /\ now = 1
  /\ upc = [t \in Uploaders |-> "idle"]
  /\ request = [t \in Uploaders |-> NoRequest]
  /\ frame = [t \in Uploaders |-> NoFrame]
  /\ spill_detected = [t \in Uploaders |-> FALSE]
  /\ response = [t \in Uploaders |-> 0]
  /\ gpc = [s \in Sessions |-> "idle"]
  /\ chunks = [s \in Sessions |-> <<>>]
  /\ spc = "idle"
  /\ current_time = 0
  /\ frame_age = None
  /\ status_json = NoStatus
  /\ frame_response = [code |-> 0, body |-> "-"]
  /\ control_response = 0
  /\ control_request = NoControl
  /\ summary_json = NoSummary
  /\ events_json = <<>>
  /\ rises = 0
  /\ nreq = 0
  /\ polls = 0
  /\ inactive_seen = [s \in Sessions |-> FALSE]
  /\ cond_false = [s \in Sessions |-> FALSE]
  /\ pre = <<NoFrame, FALSE, 0, FALSE, <<>>>>
  /\ log = <<>>

\* time.time() / datetime.now(): the clock only moves forward
Tick ==
  /\ now < MaxTime
  /\ now' = now + 1
  /\ UNCHANGED <<apivars, shared, frame_lock, uplocals, genvars, statvars, respvars, rises, nreq>>

\* ------------------------------------------------- POST /api/upload_frame
\* the comparison of line 94 inverted
UploadAuth_Inverted(t, req) ==
  /\ upc[t] = "idle"
  /\ request' = [request EXCEPT ![t] = req]
  /\ nreq' = nreq + 1
  /\ IF req.auth = camera_password
       THEN /\ upc' = [upc EXCEPT ![t] = "done"]
            /\ response' = [response EXCEPT ![t] = 401]
       ELSE /\ upc' = [upc EXCEPT ![t] = "decode"]
            /\ response' = [response EXCEPT ![t] = 0]
  /\ frame' = [frame EXCEPT ![t] = NoFrame]
  /\ spill_detected' = [spill_detected EXCEPT ![t] = FALSE]
  /\ UNCHANGED <<apivars, shared, frame_lock, now, genvars, statvars, respvars, rises>>

\* lines 91-96: the request arrives and its X-Camera-Auth header is compared
UploadAuth(t, req) ==
  /\ upc[t] = "idle"
  /\ request' = [request EXCEPT ![t] = req]
  /\ nreq' = nreq + 1
  /\ IF req.auth # camera_password
       THEN /\ upc' = [upc EXCEPT ![t] = "done"]
            /\ response' = [response EXCEPT ![t] = 401]
       ELSE /\ upc' = [upc EXCEPT ![t] = "decode"]
            /\ response' = [response EXCEPT ![t] = 0]
  /\ frame' = [frame EXCEPT ![t] = NoFrame]
  /\ spill_detected' = [spill_detected EXCEPT ![t] = FALSE]
  /\ UNCHANGED <<apivars, shared, frame_lock, now, genvars, statvars, respvars, rises>>

\* the test of line 102 left out
UploadDecode_NoNoneCheck(t) ==
  /\ upc[t] = "decode"
  /\ IF imdecode_raises(request[t].body)
       THEN /\ upc' = [upc EXCEPT ![t] = "done"]
            /\ response' = [response EXCEPT ![t] = 500]
            /\ frame' = frame
       ELSE /\ frame' = [frame EXCEPT ![t] = imdecode(request[t].body)]
            /\ upc' = [upc EXCEPT ![t] = "check"]
            /\ response' = response
  /\ UNCHANGED <<apivars, shared, frame_lock, now, request, spill_detected, genvars,
                 statvars, respvars, rises, nreq>>

\* lines 98-104: decode the body; None gives 400, an exception gives 500
UploadDecode(t) ==
  /\ upc[t] = "decode"
  /\ IF imdecode_raises(request[t].body)
       THEN /\ upc' = [upc EXCEPT ![t] = "done"]
            /\ response' = [response EXCEPT ![t] = 500]
            /\ frame' = frame
       ELSE /\ frame' = [frame EXCEPT ![t] = imdecode(request[t].body)]
            /\ IF imdecode(request[t].body) = NoFrame
                 THEN /\ upc' = [upc EXCEPT ![t] = "done"]
                      /\ response' = [response EXCEPT ![t] = 400]
                 ELSE /\ upc' = [upc EXCEPT ![t] = "check"]
                      /\ response' = response
  /\ UNCHANGED <<apivars, shared, frame_lock, now, request, spill_detected, genvars,
                 statvars, respvars, rises, nreq>>

\* line 110 without "and not oil_spill_detected": level-triggered
UploadCheck_LevelTriggered(t) ==
  /\ upc[t] = "check"
  /\ spill_detected' = [spill_detected EXCEPT ![t] = (request[t].spill = "true")]
  /\ IF request[t].spill = "true"
       THEN upc' = [upc EXCEPT ![t] = "record"]
       ELSE upc' = [upc EXCEPT ![t] = "setflag"]
  /\ UNCHANGED <<apivars, shared, frame_lock, now, request, frame, response, genvars,
                 statvars, respvars, rises, nreq>>

\* lines 107-110: read the header, then read oil_spill_detected
UploadCheck(t) ==
  /\ upc[t] = "check"
  /\ spill_detected' = [spill_detected EXCEPT ![t] = (request[t].spill = "true")]
  /\ IF (request[t].spill = "true") /\ ~oil_spill_detected
       THEN upc' = [upc EXCEPT ![t] = "record"]
       ELSE upc' = [upc EXCEPT ![t] = "setflag"]
  /\ UNCHANGED <<apivars, shared, frame_lock, now, request, frame, response, genvars,
                 statvars, respvars, rises, nreq>>

\* a history that keeps only the latest event
UploadRecord_KeepsLatest(t, raised) ==
  /\ upc[t] = "record"
  /\ IF raised
       THEN /\ upc' = [upc EXCEPT ![t] = "done"]
            /\ response' = [response EXCEPT ![t] = 500]
            /\ oil_spill_history' = oil_spill_history
       ELSE /\ upc' = [upc EXCEPT ![t] = "setflag"]
            /\ response' = response
            /\ oil_spill_history' =
                 <<[timestamp |-> now, datetime |-> now, frame_path |-> now]>>
  /\ UNCHANGED <<apivars, store, oil_spill_detected, frame_lock, now, request, frame,
                 spill_detected, genvars, statvars, respvars, rises, nreq>>

\* the event appended before the frame is persisted
UploadRecord_AppendFirst(t, raised) ==
  /\ upc[t] = "record"
  /\ oil_spill_history' = Append(oil_spill_history,
       [timestamp |-> now, datetime |-> now, frame_path |-> now])
  /\ IF raised
       THEN /\ upc' = [upc EXCEPT ![t] = "done"]
            /\ response' = [response EXCEPT ![t] = 500]
       ELSE /\ upc' = [upc EXCEPT ![t] = "setflag"]
            /\ response' = response
  /\ UNCHANGED <<apivars, store, oil_spill_detected, frame_lock, now, request, frame,
                 spill_detected, genvars, statvars, respvars, rises, nreq>>

\* lines 111-124: persist the frame (cv2.imwrite may fail with an exception,
\* caught at line 138), then append the event record
UploadRecord(t, raised) ==
  /\ upc[t] = "record"
  /\ IF raised
       THEN /\ upc' = [upc EXCEPT ![t] = "done"]
            /\ response' = [response EXCEPT ![t] = 500]
            /\ oil_spill_history' = oil_spill_history
       ELSE /\ upc' = [upc EXCEPT ![t] = "setflag"]
            /\ response' = response
            /\ oil_spill_history' = Append(oil_spill_history,
                 [timestamp |-> now, datetime |-> now, frame_path |-> now])
  /\ UNCHANGED <<apivars, store, oil_spill_detected, frame_lock, now, request, frame,
                 spill_detected, genvars, statvars, respvars, rises, nreq>>

\* a flag that is only ever raised: oil_spill_detected or spill_detected
UploadSetFlag_Sticky(t) ==
  /\ upc[t] = "setflag"
  /\ oil_spill_detected' = (oil_spill_detected \/ spill_detected[t])
  /\ rises' = IF ~oil_spill_detected /\ spill_detected[t] THEN rises + 1 ELSE rises
  /\ upc' = [upc EXCEPT ![t] = "lock"]
  /\ UNCHANGED <<apivars, store, oil_spill_history, frame_lock, now, request, frame,
                 spill_detected, response, genvars, statvars, respvars, nreq>>

\* line 129: oil_spill_detected = spill_detected
UploadSetFlag(t) ==
  /\ upc[t] = "setflag"
  /\ oil_spill_detected' = spill_detected[t]
  /\ rises' = IF ~oil_spill_detected /\ spill_detected[t] THEN rises + 1 ELSE rises
  /\ upc' = [upc EXCEPT ![t] = "lock"]
  /\ UNCHANGED <<apivars, store, oil_spill_history, frame_lock, now, request, frame,
                 spill_detected, response, genvars, statvars, respvars, nreq>>

\* lines 132-134 entered without taking frame_lock
UploadLock_NoAcquire(t) ==
  /\ upc[t] = "lock"
  /\ upc' = [upc EXCEPT ![t] = "w_frame"]
  /\ UNCHANGED <<apivars, shared, frame_lock, now, request, frame, spill_detected,
                 response, genvars, statvars, respvars, rises, nreq>>

\* line 131: with frame_lock (blocks while another thread holds it)
UploadLock(t) ==
  /\ upc[t] = "lock"
  /\ frame_lock = NoLock
  /\ frame_lock' = t
  /\ upc' = [upc EXCEPT ![t] = "w_frame"]
  /\ UNCHANGED <<apivars, shared, now, request, frame, spill_detected, response,
                 genvars, statvars, respvars, rises, nreq>>

\* line 132: latest_frame = frame
UploadWriteFrame(t) ==
  /\ upc[t] = "w_frame"
  /\ latest_frame' = frame[t]
  /\ upc' = [upc EXCEPT ![t] = "w_active"]
  /\ UNCHANGED <<apivars, stream_active, last_frame_time, alert, frame_lock, now, request,
                 frame, spill_detected, response, genvars, statvars, respvars,
                 rises, nreq>>

\* line 133: stream_active = True
UploadWriteActive(t) ==
  /\ upc[t] = "w_active"
  /\ stream_active' = TRUE
  /\ upc' = [upc EXCEPT ![t] = "w_time"]
  /\ UNCHANGED <<apivars, latest_frame, last_frame_time, alert, frame_lock, now, request,
                 frame, spill_detected, response, genvars, statvars, respvars,
                 rises, nreq>>

\* lines 134-136: last_frame_time = time.time(), leave the with block, 200
UploadWriteTime(t) ==
  /\ upc[t] = "w_time"
  /\ last_frame_time' = now
  /\ frame_lock' = NoLock
  /\ upc' = [upc EXCEPT ![t] = "done"]
  /\ response' = [response EXCEPT ![t] = 200]
  /\ UNCHANGED <<apivars, latest_frame, stream_active, alert, now, request, frame,
                 spill_detected, genvars, statvars, respvars, rises, nreq>>

\* the response has been sent; the worker thread takes the next request
UploadReturn(t) ==
  /\ upc[t] = "done"
  /\ upc' = [upc EXCEPT ![t] = "idle"]
  /\ request' = [request EXCEPT ![t] = NoRequest]
  /\ frame' = [frame EXCEPT ![t] = NoFrame]
  /\ spill_detected' = [spill_detected EXCEPT ![t] = FALSE]
  /\ response' = [response EXCEPT ![t] = 0]
  /\ UNCHANGED <<apivars, shared, frame_lock, now, genvars, statvars, respvars, rises, nreq>>

\* ------------------------------------------------------------ GET /stream
Passwords == {"secret", "wrong"}
Open(s) == gpc[s] \in {"g_while", "g_lock", "g_yield"}

\* line 37 testing the frame instead of stream_active
StreamOpen_FrameCheck(s) ==
  /\ gpc[s] = "idle"
  /\ IF latest_frame = NoFrame
       THEN gpc' = [gpc EXCEPT ![s] = "rejected"]
       ELSE gpc' = [gpc EXCEPT ![s] = "g_while"]
  /\ UNCHANGED <<apivars, shared, frame_lock, now, uplocals, chunks, inactive_seen,
                 cond_false, statvars, respvars, rises, nreq>>

\* lines 36-38 and 54: 503 while the stream is inactive, else the response
\* is built around a new generator
StreamOpen(s) ==
  /\ gpc[s] = "idle"
  /\ IF ~stream_active
       THEN gpc' = [gpc EXCEPT ![s] = "rejected"]
       ELSE gpc' = [gpc EXCEPT ![s] = "g_while"]
  /\ UNCHANGED <<apivars, shared, frame_lock, now, uplocals, chunks, inactive_seen,
                 cond_false, statvars, respvars, rises, nreq>>

\* a loop that waits for the stream to come back instead of ending
GenWhile_Resumable(s) ==
  /\ gpc[s] = "g_while"
  /\ IF stream_active
       THEN /\ gpc' = [gpc EXCEPT ![s] = "g_lock"]
            /\ cond_false' = cond_false
       ELSE /\ gpc' = [gpc EXCEPT ![s] = "g_while"]
            /\ cond_false' = [cond_false EXCEPT ![s] = TRUE]
  /\ UNCHANGED <<apivars, shared, frame_lock, now, uplocals, chunks, inactive_seen,
                 statvars, respvars, rises, nreq>>

\* line 42: while stream_active (read without the lock)
GenWhile(s) ==
  /\ gpc[s] = "g_while"
  /\ IF stream_active
       THEN /\ gpc' = [gpc EXCEPT ![s] = "g_lock"]
            /\ cond_false' = cond_false
       ELSE /\ gpc' = [gpc EXCEPT ![s] = "ended"]
            /\ cond_false' = [cond_false EXCEPT ![s] = TRUE]
  /\ UNCHANGED <<apivars, shared, frame_lock, now, uplocals, chunks, inactive_seen,
                 statvars, respvars, rises, nreq>>

\* lines 43-52: take frame_lock; with a frame present encode it and yield
\* the chunk, which suspends the generator inside the with block; with no
\* frame leave the with block and sleep
GenSample(s) ==
  /\ gpc[s] = "g_lock"
  /\ frame_lock = NoLock
  /\ Len(chunks[s]) < MaxChunks
  /\ IF latest_frame # NoFrame
       THEN /\ frame_lock' = s
            /\ chunks' = [chunks EXCEPT ![s] = Append(@, imencode(latest_frame))]
            /\ gpc' = [gpc EXCEPT ![s] = "g_yield"]
       ELSE /\ frame_lock' = NoLock
            /\ chunks' = chunks
            /\ gpc' = [gpc EXCEPT ![s] = "g_while"]
  /\ UNCHANGED <<apivars, shared, now, uplocals, inactive_seen, cond_false, statvars,
                 respvars, rises, nreq>>

\* the viewer pulls the next chunk: the generator resumes after the yield
\* of line 50, leaves the with block (releasing frame_lock) and sleeps
GenResume(s) ==
  /\ gpc[s] = "g_yield"
  /\ frame_lock' = NoLock
  /\ gpc' = [gpc EXCEPT ![s] = "g_while"]
  /\ UNCHANGED <<apivars, shared, now, uplocals, chunks, inactive_seen, cond_false,
                 statvars, respvars, rises, nreq>>

\* the viewer disconnects: the server closes the generator, GeneratorExit
\* is raised at the yield and the with block releases frame_lock
GenClose(s) ==
  /\ gpc[s] = "g_yield"
  /\ frame_lock' = NoLock
  /\ gpc' = [gpc EXCEPT ![s] = "closed"]
  /\ UNCHANGED <<apivars, shared, now, uplocals, chunks, inactive_seen, cond_false,
                 statvars, respvars, rises, nreq>>

\* the uploader is between taking frame_lock and leaving the with block
MidWrite(t) == upc[t] \in {"w_frame", "w_active", "w_time"}

\* --------------------------------------------------------- GET /api/frame
\* get_latest_frame without "with frame_lock"
Snapshot_NoLock ==
  /\ IF latest_frame = NoFrame \/ ~stream_active
       THEN frame_response' = [code |-> 503, body |-> "No frame available"]
       ELSE frame_response' = [code |-> 200, body |-> imencode(latest_frame)]
  /\ UNCHANGED <<apivars, shared, frame_lock, now, uplocals, genvars, statvars,
                 control_response, control_request, rises, nreq>>

\* line 61 testing the frame only
Snapshot_IgnoresActive ==
  /\ frame_lock = NoLock
  /\ IF latest_frame = NoFrame
       THEN frame_response' = [code |-> 503, body |-> "No frame available"]
       ELSE frame_response' = [code |-> 200, body |-> imencode(latest_frame)]
  /\ UNCHANGED <<apivars, shared, frame_lock, now, uplocals, genvars, statvars,
                 control_response, control_request, rises, nreq>>

\* lines 58-67: everything between taking and releasing frame_lock
Snapshot ==
  /\ frame_lock = NoLock
  /\ IF latest_frame = NoFrame \/ ~stream_active
       THEN frame_response' = [code |-> 503, body |-> "No frame available"]
       ELSE frame_response' = [code |-> 200, body |-> imencode(latest_frame)]
  /\ UNCHANGED <<apivars, shared, frame_lock, now, uplocals, genvars, statvars,
                 control_response, control_request, rises, nreq>>

\* -------------------------------------------------------- GET /api/status
\* line 73: current_time = time.time()
StatusBegin ==
  /\ spc = "idle"
  /\ polls < MaxPolls
  /\ polls' = polls + 1
  /\ current_time' = now
  /\ spc' = "cond"
  /\ UNCHANGED <<apivars, shared, frame_lock, now, uplocals, genvars, frame_age,
                 status_json, respvars, rises, nreq>>

\* line 74, the condition: last_frame_time > 0
StatusCond ==
  /\ spc = "cond"
  /\ IF last_frame_time > 0
       THEN /\ spc' = "age"
            /\ frame_age' = frame_age
       ELSE /\ spc' = "l77"
            /\ frame_age' = None
  /\ UNCHANGED <<apivars, shared, frame_lock, now, uplocals, genvars, current_time,
                 status_json, polls, respvars, rises, nreq>>

\* line 74, the value: current_time - last_frame_time (a second read)
StatusAge ==
  /\ spc = "age"
  /\ frame_age' = <<current_time - last_frame_time>>
  /\ spc' = "l77"
  /\ UNCHANGED <<apivars, shared, frame_lock, now, uplocals, genvars, current_time,
                 status_json, polls, respvars, rises, nreq>>

\* line 77: 'stream_active': stream_active
StatusReadActive ==
  /\ spc = "l77"
  /\ status_json' = [NoStatus EXCEPT !.stream_active = stream_active]
  /\ spc' = "l78"
  /\ UNCHANGED <<apivars, shared, frame_lock, now, uplocals, genvars, current_time,
                 frame_age, polls, respvars, rises, nreq>>

\* lines 78-80: last_frame_time, frame_age_seconds, server_time
StatusReadTime ==
  /\ spc = "l78"
  /\ status_json' = [status_json EXCEPT !.last_frame_time = last_frame_time,
                                        !.frame_age_seconds = frame_age,
                                        !.server_time = current_time]
  /\ spc' = "l81"
  /\ UNCHANGED <<apivars, shared, frame_lock, now, uplocals, genvars, current_time,
                 frame_age, polls, respvars, rises, nreq>>

\* lines 81-83: oil_spill_detected, len(oil_spill_history); the response
StatusReadAlert ==
  /\ spc = "l81"
  /\ status_json' = [status_json EXCEPT !.oil_spill_detected = oil_spill_detected,
                                        !.oil_spill_events = Len(oil_spill_history)]
  /\ spc' = "idle"
  /\ UNCHANGED <<apivars, shared, frame_lock, now, uplocals, genvars, current_time,
                 frame_age, polls, respvars, rises, nreq>>

\* ------------------------------- POST /api/start_stream, /api/stop_stream
\* start_stream without the test of line 146
StartStream_NoAuth(password) ==
  /\ control_request' = [op |-> "start", password |-> password]
  /\ control_response' = 200
  /\ stream_active' = TRUE
  /\ UNCHANGED <<apivars, latest_frame, last_frame_time, alert, frame_lock, now,
                 uplocals, genvars, statvars, frame_response, rises, nreq>>

\* lines 143-150
StartStream(password) ==
  /\ control_request' = [op |-> "start", password |-> password]
  /\ IF password # camera_password
       THEN /\ control_response' = 401
            /\ stream_active' = stream_active
       ELSE /\ control_response' = 200
            /\ stream_active' = TRUE
  /\ UNCHANGED <<apivars, latest_frame, last_frame_time, alert, frame_lock, now,
                 uplocals, genvars, statvars, frame_response, rises, nreq>>

\* a stop that also drops the stored frame
StopStream_ClearsFrame(password) ==
  /\ control_request' = [op |-> "stop", password |-> password]
  /\ IF password # camera_password
       THEN /\ control_response' = 401
            /\ stream_active' = stream_active
            /\ latest_frame' = latest_frame
            /\ inactive_seen' = inactive_seen
       ELSE /\ control_response' = 200
            /\ stream_active' = FALSE
            /\ latest_frame' = NoFrame
            /\ inactive_seen' = [s \in Sessions |-> inactive_seen[s] \/ Open(s)]
  /\ UNCHANGED <<apivars, last_frame_time, alert, frame_lock, now,
                 uplocals, gpc, chunks, cond_false, statvars, frame_response,
                 rises, nreq>>

\* lines 153-160
StopStream(password) ==
  /\ control_request' = [op |-> "stop", password |-> password]
  /\ IF password # camera_password
       THEN /\ control_response' = 401
            /\ stream_active' = stream_active
            /\ inactive_seen' = inactive_seen
       ELSE /\ control_response' = 200
            /\ stream_active' = FALSE
            /\ inactive_seen' = [s \in Sessions |-> inactive_seen[s] \/ Open(s)]
  /\ UNCHANGED <<apivars, latest_frame, last_frame_time, alert, frame_lock, now,
                 uplocals, gpc, chunks, cond_false, statvars, frame_response,
                 rises, nreq>>


\* ----------------------- GET /api/detection_summary, /api/oil_spill_events
SummaryOf(detected, history) ==
  [current_status |-> IF detected THEN "ALERT: Oil spill detected"
                                  ELSE "Normal: No oil spill detected",
   total_events |-> Len(history),
   last_detection |-> IF history # <<>> THEN <<history[Len(history)].datetime>> ELSE None]

\* lines 164-169
DetectionSummary ==
  /\ summary_json' = SummaryOf(oil_spill_detected, oil_spill_history)
  /\ UNCHANGED <<events_json, shared, frame_lock, now, uplocals, genvars,
                 statvars, respvars, rises, nreq>>

\* lines 86-88
GetOilSpillEvents ==
  /\ events_json' = oil_spill_history
  /\ UNCHANGED <<summary_json, shared, frame_lock, now, uplocals, genvars,
                 statvars, respvars, rises, nreq>>

\* ------------------------------------------- uploads one after the other
\* One camera client that waits for each response before it sends the next
\* frame.  pre is the shared state at the arrival of the request in flight,
\* log the signal and status of every authenticated, decodable upload
\* answered so far.
SeqBegin ==
  /\ nreq < MaxSeqUploads
  /\ \E req \in Requests : UploadAuth("u1", req)
  /\ pre' = shared
  /\ log' = log

SeqDecode == UploadDecode("u1") /\ UNCHANGED observers

SeqCheck == UploadCheck("u1") /\ UNCHANGED observers

SeqRecord == (\E raised \in BOOLEAN : UploadRecord("u1", raised)) /\ UNCHANGED observers

SeqSetFlag == UploadSetFlag("u1") /\ UNCHANGED observers

SeqLock == UploadLock("u1") /\ UNCHANGED observers

SeqWriteFrame == UploadWriteFrame("u1") /\ UNCHANGED observers

SeqWriteActive == UploadWriteActive("u1") /\ UNCHANGED observers

SeqWriteTime == UploadWriteTime("u1") /\ UNCHANGED observers

SeqReturn ==
  /\ UploadReturn("u1")
  /\ log' = IF request["u1"] \in ValidRequests
              THEN Append(log, [signal |-> request["u1"].spill = "true",
                                status |-> response["u1"]])
              ELSE log
  /\ pre' = pre

SeqTick == Tick /\ UNCHANGED observers

NextSeq ==
  \/ SeqBegin
  \/ SeqDecode
  \/ SeqCheck
  \/ SeqRecord
  \/ SeqSetFlag
  \/ SeqLock
  \/ SeqWriteFrame
  \/ SeqWriteActive
  \/ SeqWriteTime
  \/ SeqReturn
  \/ SeqTick

SpecSeq == Init /\ [][NextSeq]_vars

\* ------------------------------------------------- overlapping requests
\* Two camera connections whose valid uploads overlap.
RaceRequests == {r \in ValidRequests : r.spill \in {"true", "false"}}

RaceBegin ==
  /\ nreq < MaxUploads
  /\ \E t \in Uploaders : \E req \in RaceRequests : UploadAuth(t, req)
  /\ UNCHANGED observers

RaceDecode == (\E t \in Uploaders : UploadDecode(t)) /\ UNCHANGED observers

RaceCheck == (\E t \in Uploaders : UploadCheck(t)) /\ UNCHANGED observers

RaceRecord ==
  /\ \E t \in Uploaders : \E raised \in BOOLEAN : UploadRecord(t, raised)
  /\ UNCHANGED observers

RaceSetFlag == (\E t \in Uploaders : UploadSetFlag(t)) /\ UNCHANGED observers

RaceLock == (\E t \in Uploaders : UploadLock(t)) /\ UNCHANGED observers

RaceWriteFrame == (\E t \in Uploaders : UploadWriteFrame(t)) /\ UNCHANGED observers

RaceWriteActive == (\E t \in Uploaders : UploadWriteActive(t)) /\ UNCHANGED observers

RaceWriteTime == (\E t \in Uploaders : UploadWriteTime(t)) /\ UNCHANGED observers

RaceReturn == (\E t \in Uploaders : UploadReturn(t)) /\ UNCHANGED observers

NextRace ==
  \/ RaceBegin
  \/ RaceDecode
  \/ RaceCheck
  \/ RaceRecord
  \/ RaceSetFlag
  \/ RaceLock
  \/ RaceWriteFrame
  \/ RaceWriteActive
  \/ RaceWriteTime
  \/ RaceReturn

SpecRace == Init /\ [][NextRace]_vars

\* ------------------------------------------------ status poller and camera
\* One camera connection next to a client that polls /api/status, under a
\* clock that moves forward.
PollRequests == {r \in ValidRequests : r.body = "jpgA" /\ r.spill \in {"true", "absent"}}

PollBegin ==
  /\ nreq < MaxPollUploads
  /\ \E req \in PollRequests : UploadAuth("u1", req)
  /\ UNCHANGED observers

PollDecode == UploadDecode("u1") /\ UNCHANGED observers

PollCheck == UploadCheck("u1") /\ UNCHANGED observers

PollRecord == (\E raised \in BOOLEAN : UploadRecord("u1", raised)) /\ UNCHANGED observers

PollSetFlag == UploadSetFlag("u1") /\ UNCHANGED observers

PollLock == UploadLock("u1") /\ UNCHANGED observers

PollWriteFrame == UploadWriteFrame("u1") /\ UNCHANGED observers

PollWriteActive == UploadWriteActive("u1") /\ UNCHANGED observers

PollWriteTime == UploadWriteTime("u1") /\ UNCHANGED observers

PollReturn == UploadReturn("u1") /\ UNCHANGED observers

PollTick == Tick /\ UNCHANGED observers

PollStatusBegin == StatusBegin /\ UNCHANGED observers

PollStatusCond == StatusCond /\ UNCHANGED observers

PollStatusAge == StatusAge /\ UNCHANGED observers

PollStatusReadActive == StatusReadActive /\ UNCHANGED observers

PollStatusReadTime == StatusReadTime /\ UNCHANGED observers

PollStatusReadAlert == StatusReadAlert /\ UNCHANGED observers

NextPoll ==
  \/ PollBegin
  \/ PollDecode
  \/ PollCheck
  \/ PollRecord
  \/ PollSetFlag
  \/ PollLock
  \/ PollWriteFrame
  \/ PollWriteActive
  \/ PollWriteTime
  \/ PollReturn
  \/ PollTick
  \/ PollStatusBegin
  \/ PollStatusCond
  \/ PollStatusAge
  \/ PollStatusReadActive
  \/ PollStatusReadTime
  \/ PollStatusReadAlert

SpecPoll == Init /\ [][NextPoll]_vars

\* --------------------------------------------------- viewers and camera
\* One camera connection, two /stream viewers, snapshot requests and the
\* start/stop controls.  The uploads carry no spill signal.
ViewRequests == {r \in ValidRequests : r.spill = "absent"}

ViewBegin ==
  /\ nreq < MaxViewUploads
  /\ \E req \in ViewRequests : UploadAuth("u1", req)
  /\ UNCHANGED observers

ViewDecode == UploadDecode("u1") /\ UNCHANGED observers

ViewCheck == UploadCheck("u1") /\ UNCHANGED observers

ViewSetFlag == UploadSetFlag("u1") /\ UNCHANGED observers

ViewLock == UploadLock("u1") /\ UNCHANGED observers

ViewWriteFrame == UploadWriteFrame("u1") /\ UNCHANGED observers

ViewWriteActive == UploadWriteActive("u1") /\ UNCHANGED observers

ViewWriteTime == UploadWriteTime("u1") /\ UNCHANGED observers

ViewReturn == UploadReturn("u1") /\ UNCHANGED observers

ViewStreamOpen == (\E s \in Sessions : StreamOpen(s)) /\ UNCHANGED observers

ViewGenWhile == (\E s \in Sessions : GenWhile(s)) /\ UNCHANGED observers

ViewGenSample == (\E s \in Sessions : GenSample(s)) /\ UNCHANGED observers

ViewGenResume == (\E s \in Sessions : GenResume(s)) /\ UNCHANGED observers

ViewGenClose == (\E s \in Sessions : GenClose(s)) /\ UNCHANGED observers

ViewSnapshot == Snapshot /\ UNCHANGED observers

ViewStart == StartStream(camera_password) /\ UNCHANGED observers

ViewStop == StopStream(camera_password) /\ UNCHANGED observers

NextView ==
  \/ ViewBegin
  \/ ViewDecode
  \/ ViewCheck
  \/ ViewSetFlag
  \/ ViewLock
  \/ ViewWriteFrame
  \/ ViewWriteActive
  \/ ViewWriteTime
  \/ ViewReturn
  \/ ViewStreamOpen
  \/ ViewGenWhile
  \/ ViewGenSample
  \/ ViewGenResume
  \/ ViewGenClose
  \/ ViewSnapshot
  \/ ViewStart
  \/ ViewStop

SpecView == Init /\ [][NextView]_vars

\* The same system under fair scheduling: every thread that can take a
\* step eventually takes it (upload steps, the generators' loop test and
\* lock acquisition), and the viewer of session s1 keeps pulling chunks.
\* Nothing makes the viewer of s2 pull, and nothing forces new requests.
FairView ==
  /\ SpecView
  /\ WF_vars(ViewDecode)
  /\ WF_vars(ViewCheck)
  /\ WF_vars(ViewSetFlag)
  /\ WF_vars(ViewLock)
  /\ WF_vars(ViewWriteFrame)
  /\ WF_vars(ViewWriteActive)
  /\ WF_vars(ViewWriteTime)
  /\ \A s \in Sessions : WF_vars(GenWhile(s) /\ UNCHANGED observers)
  /\ \A s \in Sessions : SF_vars(GenSample(s) /\ UNCHANGED observers)
  /\ WF_vars(GenResume("s1") /\ UNCHANGED observers)

\* ------------------------------------- overlapping uploads and snapshots
\* Two camera connections whose uploads overlap with /api/frame requests.
SnapBegin ==
  /\ nreq < MaxUploads
  /\ \E t \in Uploaders : \E req \in ViewRequests : UploadAuth(t, req)
  /\ UNCHANGED observers

SnapDecode == (\E t \in Uploaders : UploadDecode(t)) /\ UNCHANGED observers

SnapCheck == (\E t \in Uploaders : UploadCheck(t)) /\ UNCHANGED observers

SnapSetFlag == (\E t \in Uploaders : UploadSetFlag(t)) /\ UNCHANGED observers

SnapLock == (\E t \in Uploaders : UploadLock(t)) /\ UNCHANGED observers

SnapWriteFrame == (\E t \in Uploaders : UploadWriteFrame(t)) /\ UNCHANGED observers

SnapWriteActive == (\E t \in Uploaders : UploadWriteActive(t)) /\ UNCHANGED observers

SnapWriteTime == (\E t \in Uploaders : UploadWriteTime(t)) /\ UNCHANGED observers

SnapReturn == (\E t \in Uploaders : UploadReturn(t)) /\ UNCHANGED observers

SnapSnapshot == Snapshot /\ UNCHANGED observers

NextSnap ==
  \/ SnapBegin
  \/ SnapDecode
  \/ SnapCheck
  \/ SnapSetFlag
  \/ SnapLock
  \/ SnapWriteFrame
  \/ SnapWriteActive
  \/ SnapWriteTime
  \/ SnapReturn
  \/ SnapSnapshot

SpecSnap == Init /\ [][NextSnap]_vars

\* ------------------------------------- one camera and the read-only API
\* One camera client that waits for each response, and a client that asks
\* for /api/status and /api/detection_summary between two uploads.
ApiRequests == {r \in ValidRequests : r.body = "jpgA"}

ApiBegin ==
  /\ spc = "idle"
  /\ nreq < MaxApiUploads
  /\ \E req \in ApiRequests : UploadAuth("u1", req)
  /\ pre' = shared
  /\ log' = log

ApiDecode == UploadDecode("u1") /\ UNCHANGED observers

ApiCheck == UploadCheck("u1") /\ UNCHANGED observers

ApiSetFlag == UploadSetFlag("u1") /\ UNCHANGED observers

ApiLock == UploadLock("u1") /\ UNCHANGED observers

ApiWriteFrame == UploadWriteFrame("u1") /\ UNCHANGED observers

ApiWriteActive == UploadWriteActive("u1") /\ UNCHANGED observers

ApiWriteTime == UploadWriteTime("u1") /\ UNCHANGED observers

ApiRecord == (\E raised \in BOOLEAN : UploadRecord("u1", raised)) /\ UNCHANGED observers

ApiReturn ==
  /\ UploadReturn("u1")
  /\ log' = Append(log, [signal |-> request["u1"].spill = "true",
                         status |-> response["u1"]])
  /\ pre' = pre

ApiTick == Tick /\ UNCHANGED observers

ApiStatusBegin == upc["u1"] = "idle" /\ StatusBegin /\ UNCHANGED observers

ApiStatusCond == StatusCond /\ UNCHANGED observers

ApiStatusAge == StatusAge /\ UNCHANGED observers

ApiStatusReadActive == StatusReadActive /\ UNCHANGED observers

ApiStatusReadTime == StatusReadTime /\ UNCHANGED observers

ApiStatusReadAlert == StatusReadAlert /\ UNCHANGED observers

ApiSummary == upc["u1"] = "idle" /\ DetectionSummary /\ UNCHANGED observers

NextApi ==
  \/ ApiBegin
  \/ ApiDecode
  \/ ApiCheck
  \/ ApiRecord
  \/ ApiSetFlag
  \/ ApiLock
  \/ ApiWriteFrame
  \/ ApiWriteActive
  \/ ApiWriteTime
  \/ ApiReturn
  \/ ApiTick
  \/ ApiStatusBegin
  \/ ApiStatusCond
  \/ ApiStatusAge
  \/ ApiStatusReadActive
  \/ ApiStatusReadTime
  \/ ApiStatusReadAlert
  \/ ApiSummary

SpecApi == Init /\ [][NextApi]_vars

\* ------------------------------------------- camera and stream controls
\* One camera connection sending any request, next to start_stream and
\* stop_stream calls with a right or a wrong password.
CtlBegin ==
  /\ nreq < MaxCtlUploads
  /\ \E req \in Requests : UploadAuth("u1", req)
  /\ UNCHANGED observers

CtlDecode == UploadDecode("u1") /\ UNCHANGED observers

CtlCheck == UploadCheck("u1") /\ UNCHANGED observers

CtlSetFlag == UploadSetFlag("u1") /\ UNCHANGED observers

CtlLock == UploadLock("u1") /\ UNCHANGED observers

CtlWriteFrame == UploadWriteFrame("u1") /\ UNCHANGED observers

CtlWriteActive == UploadWriteActive("u1") /\ UNCHANGED observers

CtlWriteTime == UploadWriteTime("u1") /\ UNCHANGED observers

CtlReturn == UploadReturn("u1") /\ UNCHANGED observers

CtlRecord == (\E raised \in BOOLEAN : UploadRecord("u1", raised)) /\ UNCHANGED observers

CtlStart == (\E password \in Passwords : StartStream(password)) /\ UNCHANGED observers

CtlStop == (\E password \in Passwords : StopStream(password)) /\ UNCHANGED observers

NextCtl ==
  \/ CtlBegin
  \/ CtlDecode
  \/ CtlCheck
  \/ CtlRecord
  \/ CtlSetFlag
  \/ CtlLock
  \/ CtlWriteFrame
  \/ CtlWriteActive
  \/ CtlWriteTime
  \/ CtlReturn
  \/ CtlStart
  \/ CtlStop

SpecCtl == Init /\ [][NextCtl]_vars

\* --------------------------------- overlapping uploads and event readers
\* Two camera connections whose uploads overlap, clients reading
\* /api/oil_spill_events and /api/detection_summary, and the clock.
LogRequests == {r \in RaceRequests : r.body = "jpgA"}

LogBegin ==
  /\ nreq < MaxUploads
  /\ \E t \in Uploaders : \E req \in LogRequests : UploadAuth(t, req)
  /\ UNCHANGED observers

LogDecode == (\E t \in Uploaders : UploadDecode(t)) /\ UNCHANGED observers

LogCheck == (\E t \in Uploaders : UploadCheck(t)) /\ UNCHANGED observers

LogSetFlag == (\E t \in Uploaders : UploadSetFlag(t)) /\ UNCHANGED observers

LogLock == (\E t \in Uploaders : UploadLock(t)) /\ UNCHANGED observers

LogWriteFrame == (\E t \in Uploaders : UploadWriteFrame(t)) /\ UNCHANGED observers

LogWriteActive == (\E t \in Uploaders : UploadWriteActive(t)) /\ UNCHANGED observers

LogWriteTime == (\E t \in Uploaders : UploadWriteTime(t)) /\ UNCHANGED observers

LogReturn == (\E t \in Uploaders : UploadReturn(t)) /\ UNCHANGED observers

LogRecord ==
  /\ \E t \in Uploaders : \E raised \in BOOLEAN : UploadRecord(t, raised)
  /\ UNCHANGED observers

LogTick == Tick /\ UNCHANGED observers

LogEvents == GetOilSpillEvents /\ UNCHANGED observers

LogSummary == DetectionSummary /\ UNCHANGED observers

NextLog ==
  \/ LogBegin
  \/ LogDecode
  \/ LogCheck
  \/ LogRecord
  \/ LogSetFlag
  \/ LogLock
  \/ LogWriteFrame
  \/ LogWriteActive
  \/ LogWriteTime
  \/ LogReturn
  \/ LogTick
  \/ LogEvents
  \/ LogSummary

SpecLog == Init /\ [][NextLog]_vars

\* number of false -> true steps of a signal sequence that starts after false
RECURSIVE RisingEdges(_, _)
RisingEdges(prev, sigs) ==
  IF sigs = <<>> THEN 0
  ELSE (IF Head(sigs) /\ ~prev THEN 1 ELSE 0) + RisingEdges(Head(sigs), Tail(sigs))

Signals(l) == [i \in 1..Len(l) |-> l[i].signal]

Answered(t) == upc[t] = "done"

AppendedOne == /\ Len(oil_spill_history) = Len(pre[5]) + 1
               /\ SubSeq(oil_spill_history, 1, Len(pre[5])) = pre[5]

\* ------------------------------------------------------------------ C1
\* C1 (as stated): every authenticated, decodable upload of a sequence of
\* non-overlapping uploads appends an event if and only if its signal is
\* true and oil_spill_detected was false immediately before it.
C1_EventIffRisingEdge ==
  (Answered("u1") /\ request["u1"] \in ValidRequests) =>
     (AppendedOne <=> (request["u1"].spill = "true" /\ ~pre[4]))

\* C1 (amended): an authenticated, decodable upload that is answered 200
\* appends exactly one event if and only if its signal is true and
\* oil_spill_detected was false immediately before it, and otherwise leaves
\* the history as it was; an upload answered 500 appends nothing.  Hence the
\* history holds one event per rising edge of the signals answered 200, and
\* the signals false, true, true, false, true give exactly 2 events.
C1_EventIffRisingEdgeOf200 ==
  /\ (Answered("u1") /\ request["u1"] \in ValidRequests /\ response["u1"] = 200) =>
        /\ AppendedOne <=> (request["u1"].spill = "true" /\ ~pre[4])
        /\ ~AppendedOne => oil_spill_history = pre[5]
        /\ oil_spill_detected = (request["u1"].spill = "true")
  /\ (Answered("u1") /\ response["u1"] = 500) => oil_spill_history = pre[5]
  /\ (upc["u1"] = "idle" /\ \A i \in 1..Len(log) : log[i].status = 200) =>
        /\ Len(oil_spill_history) = RisingEdges(FALSE, Signals(log))
        /\ Signals(log) = <<FALSE, TRUE, TRUE, FALSE, TRUE>> => Len(oil_spill_history) = 2

C1_Witness ==
  /\ upc["u1"] = "idle"
  /\ Signals(log) = <<FALSE, TRUE, TRUE, FALSE, TRUE>>
  /\ \A i \in 1..Len(log) : log[i].status = 200
  /\ Len(oil_spill_history) = 2

\* ------------------------------------------------------------------ C4
\* C4: an upload whose X-Camera-Auth header differs from the shared secret
\* is answered 401 at once and leaves latest_frame, stream_active,
\* last_frame_time, oil_spill_detected and oil_spill_history unchanged,
\* whatever its body and X-Oil-Spill-Detected header are.
C4_AuthRejectionNoOp ==
  (upc["u1"] # "idle" /\ request["u1"].auth # camera_password) =>
     /\ Answered("u1")
     /\ response["u1"] = 401
     /\ shared = pre

C4_Witness ==
  /\ Answered("u1")
  /\ response["u1"] = 401
  /\ request["u1"] = [auth |-> "wrong", body |-> "jpgA", spill |-> "true"]
  /\ ~oil_spill_detected
  /\ latest_frame = "B"

C6_FailedUploadNoOp ==
  (Answered("u1") /\ response["u1"] \in {400, 401, 500}) => shared = pre

C6_Witness ==
  /\ Answered("u1")
  /\ response["u1"] = 500
  /\ request["u1"].body = "jpgA"
  /\ request["u1"].spill = "true"
  /\ ~oil_spill_detected
  /\ Len(oil_spill_history) = 1

\* ------------------------------------------------------------------ C2
\* C2: the edge test, the append and the flag write of an upload are one
\* atomic unit: two overlapping valid uploads that both carry signal true
\* and are the only uploads since the fresh state (oil_spill_detected false,
\* no false signal in between) append exactly one event in total.
C2_NoDoubleFire ==
  (/\ nreq = 2
   /\ \A t \in Uploaders : Answered(t) /\ response[t] = 200 /\ spill_detected[t]) =>
     Len(oil_spill_history) = 1

\* ------------------------------------------------------------------ C3
\* C3: no event is lost: the history holds at least as many entries as the
\* stored oil_spill_detected flag has gone from false to true.
C3_NoLostEvent == Len(oil_spill_history) >= rises

\* ------------------------------------------------------------------ C7
\* C7: a viewer that stops pulling chunks blocks nobody: a /stream
\* generator suspended at its yield does not hold frame_lock, the lock that
\* every upload, every snapshot and every other generator has to take.
C7_StalledViewerBlocksNobody == \A s \in Sessions : gpc[s] = "g_yield" => frame_lock # s

\* ------------------------------------------------------------------ C8
\* C8 (as stated): once stream_active has been false while a session was
\* open, that session emits no further chunk.
C8_NoChunkAfterInactive ==
  [][\A s \in Sessions : inactive_seen[s] => chunks'[s] = chunks[s]]_vars

\* C8 (amended): once the generator of a session has evaluated its loop
\* condition while stream_active was false, the session has ended, stays
\* ended and emits no further chunk, also when stream_active is set back to
\* true afterwards.
C8_NoChunkAfterLoopSawInactive ==
  /\ [](\A s \in Sessions : cond_false[s] => gpc[s] = "ended")
  /\ [][\A s \in Sessions : cond_false[s] =>
          (chunks'[s] = chunks[s] /\ gpc'[s] = "ended")]_vars

C8_Witness ==
  /\ cond_false["s1"]
  /\ Len(chunks["s1"]) >= 1
  /\ stream_active
  /\ Open("s2")

\* ------------------------------------------------------------------ C9
\* C9: a GET /stream handled while stream_active is false is answered 503:
\* no generator is created and no chunk is ever emitted for it, whether or
\* not a frame is stored.
C9_InactiveShortCircuit ==
  /\ [][\A s \in Sessions : (gpc[s] = "idle" /\ gpc'[s] # "idle" /\ ~stream_active) =>
          gpc'[s] = "rejected"]_vars
  /\ [](\A s \in Sessions : gpc[s] = "rejected" => chunks[s] = <<>>)
  /\ [][\A s \in Sessions : gpc[s] = "rejected" => gpc'[s] = "rejected"]_vars

C9_Witness ==
  /\ gpc["s1"] = "rejected"
  /\ latest_frame # NoFrame
  /\ ~stream_active
  /\ gpc["s2"] = "ended"

\* ----------------------------------------------------------------- C10
\* C10: every /api/status response reports frame_age_seconds as null or as
\* a value >= 0.
C10_FrameAgeNonNegative ==
  status_json.frame_age_seconds = None \/ status_json.frame_age_seconds[1] >= 0

\* ----------------------------------------------------------------- C11
\* C11: whatever the interleaving of overlapping uploads and snapshots,
\* a 200 response of /api/frame carries one whole uploaded frame: the
\* encoding of the latest_frame stored at the moment the snapshot holds
\* frame_lock, read while no upload is inside its critical section.
C11_SnapshotWholeFrame ==
  [][(frame_response' # frame_response /\ frame_response'.code = 200) =>
        /\ latest_frame \in Frames
        /\ frame_response'.body = imencode(latest_frame)
        /\ imdecode(frame_response'.body) = latest_frame
        /\ \A t \in Uploaders : ~MidWrite(t)]_vars

C11_Witness ==
  /\ frame_response = [code |-> 200, body |-> "jpgB"]
  /\ latest_frame = "A"
  /\ upc["u1"] = "lock"
  /\ upc["u2"] = "done"
  /\ nreq = 3

\* ----------------------------------------------------------------- C12
\* C12: GET /api/frame answers 200 with the encoded current frame exactly
\* when, at its read under frame_lock, stream_active is true and a frame is
\* stored; in every other case (no upload yet, started without an upload,
\* stopped with a frame still stored) it answers 503.
C12_SnapshotIffActiveAndFrame ==
  [][frame_response' # frame_response =>
        IF stream_active /\ latest_frame # NoFrame
          THEN frame_response' = [code |-> 200, body |-> imencode(latest_frame)]
          ELSE frame_response'.code = 503]_vars

C12_Witness ==
  /\ frame_response.code = 503
  /\ control_request.op = "stop"
  /\ ~stream_active
  /\ latest_frame # NoFrame
  /\ frame_lock = NoLock

\* ----------------------------------------------------------------- C13
\* C13: a successful upload stores its frame, sets stream_active to true
\* (also after a stop) and sets last_frame_time to the current time while
\* it holds frame_lock, and answers 200 as it releases the lock; a reader
\* that takes frame_lock (snapshot, stream generator) never reads while an
\* upload is between these writes.
C13_StoreWriteAtomicForLockReaders ==
  /\ [](\A t \in Uploaders : MidWrite(t) => frame_lock = t)
  /\ [][(\/ frame_response' # frame_response
         \/ \E s \in Sessions : gpc[s] = "g_lock" /\ gpc'[s] # "g_lock") =>
           \A t \in Uploaders : ~MidWrite(t)]_vars
  /\ [][\A t \in Uploaders :
          /\ (upc[t] = "w_frame" /\ upc'[t] = "w_active") => latest_frame' = frame[t]
          /\ (upc[t] = "w_active" /\ upc'[t] = "w_time") => stream_active'
          /\ (upc[t] = "w_time" /\ upc'[t] = "done") =>
                /\ response'[t] = 200
                /\ latest_frame' = frame[t]
                /\ last_frame_time' = now
                /\ frame_lock' = NoLock
          /\ (response'[t] = 200 /\ response[t] # 200) => upc[t] = "w_time"]_vars

C13_Witness ==
  /\ upc["u1"] = "done"
  /\ response["u1"] = 200
  /\ latest_frame = "B"
  /\ stream_active
  /\ control_request.op = "stop"
  /\ inactive_seen["s1"]
  /\ gpc["s2"] = "g_lock"

\* ----------------------------------------------------------------- C14
\* C14: between non-overlapping uploads /api/status reports
\* oil_spill_detected as the signal of the last upload answered 200 and
\* oil_spill_events as the number of rising edges of those signals;
\* /api/detection_summary reports the same count, the alert label exactly
\* when the flag is true and the datetime of the last event (null without
\* one).  Signals true, true, false give 1 event and a normal status.
Log200 == SelectSeq(log, LAMBDA e : e.status = 200)

LastSignal(l) == IF l = <<>> THEN FALSE ELSE l[Len(l)].signal

C14_StatusAndSummaryFollowUploads ==
  /\ [][(spc = "l81" /\ spc' = "idle") =>
          /\ status_json'.oil_spill_detected = LastSignal(Log200)
          /\ status_json'.oil_spill_events = RisingEdges(FALSE, Signals(Log200))]_vars
  /\ [][summary_json' # summary_json =>
          /\ summary_json'.total_events = RisingEdges(FALSE, Signals(Log200))
          /\ (summary_json'.current_status = "ALERT: Oil spill detected") <=> LastSignal(Log200)
          /\ (summary_json'.current_status = "Normal: No oil spill detected") <=> ~LastSignal(Log200)
          /\ summary_json'.last_detection =
               IF oil_spill_history = <<>> THEN None
               ELSE <<oil_spill_history[Len(oil_spill_history)].datetime>>]_vars
  /\ [][(Log200 = log /\ Signals(log) = <<TRUE, TRUE, FALSE>> /\
         summary_json' # summary_json) =>
          /\ summary_json'.total_events = 1
          /\ summary_json'.current_status = "Normal: No oil spill detected"]_vars

C14_Witness ==
  /\ upc["u1"] = "idle"
  /\ Log200 = log
  /\ Signals(log) = <<TRUE, TRUE, FALSE>>
  /\ summary_json.current_status = "Normal: No oil spill detected"
  /\ summary_json.total_events = 1
  /\ summary_json.last_detection # None
  /\ spc = "idle"
  /\ status_json.oil_spill_detected
  /\ status_json.oil_spill_events = 1

\* ----------------------------------------------------------------- C15
\* C15: start_stream and stop_stream touch nothing but stream_active: with
\* the right password they answer 200 and set it to true / false, with a
\* wrong password they answer 401 and leave it alone; latest_frame,
\* last_frame_time, oil_spill_detected and oil_spill_history never change.
C15_ControlsOnlySetActive ==
  [][upc' = upc =>
        /\ latest_frame' = latest_frame
        /\ last_frame_time' = last_frame_time
        /\ oil_spill_detected' = oil_spill_detected
        /\ oil_spill_history' = oil_spill_history
        /\ control_request'.op \in {"start", "stop"}
        /\ IF control_request'.password = camera_password
             THEN /\ control_response' = 200
                  /\ stream_active' = (control_request'.op = "start")
             ELSE /\ control_response' = 401
                  /\ stream_active' = stream_active]_vars

C15_Witness ==
  /\ control_request = [op |-> "stop", password |-> "wrong"]
  /\ control_response = 401
  /\ stream_active
  /\ latest_frame = "A"
  /\ oil_spill_detected
  /\ Len(oil_spill_history) = 1

\* ----------------------------------------------------------------- C18
\* C18: once an upload has been answered 200 (last_frame_time > 0) a frame
\* is stored, and no stop, start or failed upload ever takes a stored frame
\* away; stream_active becomes true without a stored frame only by a
\* start_stream before any successful upload.
C18_FramePresentAfterSuccess ==
  /\ []((last_frame_time > 0 \/ \E t \in Uploaders : response[t] = 200) =>
          latest_frame # NoFrame)
  /\ []((stream_active /\ latest_frame = NoFrame) => last_frame_time = 0)
  /\ [][latest_frame # NoFrame => latest_frame' # NoFrame]_vars
  /\ [][(stream_active' /\ ~stream_active /\ latest_frame' = NoFrame) =>
          /\ control_request' = [op |-> "start", password |-> camera_password]
          /\ upc' = upc
          /\ last_frame_time = 0]_vars

C18_Witness ==
  /\ latest_frame = "B"
  /\ ~stream_active
  /\ control_request = [op |-> "stop", password |-> camera_password]
  /\ upc["u1"] = "done"
  /\ response["u1"] = 400
  /\ last_frame_time > 0

\* ----------------------------------------------------------------- C16
\* C16: oil_spill_history is append-only: in every step of every handler
\* the old history is a prefix of the new one and at most one entry is
\* added, so every list /api/oil_spill_events has returned stays a prefix
\* of the history.
IsPrefix(a, b) == Len(a) <= Len(b) /\ SubSeq(b, 1, Len(a)) = a

C16_HistoryAppendOnly ==
  /\ [][/\ IsPrefix(oil_spill_history, oil_spill_history')
        /\ Len(oil_spill_history') <= Len(oil_spill_history) + 1]_vars
  /\ [](IsPrefix(events_json, oil_spill_history))

C16_Witness ==
  /\ Len(oil_spill_history) = 2
  /\ Len(events_json) = 1
  /\ oil_spill_history[1].timestamp < oil_spill_history[2].timestamp
  /\ summary_json.total_events = 1
  /\ \E t \in Uploaders : upc[t] = "setflag"

\* ----------------------------------------------------------------- C17
\* C17: after a stop that is not followed by a re-activation, the open
\* session s1, whose viewer keeps pulling, eventually ends (or the stream
\* is active again).  A session waiting for the lock at the chunk bound of
\* the model is left out.
AtBound(s) == gpc[s] = "g_lock" /\ Len(chunks[s]) >= MaxChunks

C17_PullingSessionTerminates ==
  (Open("s1") /\ ~stream_active /\ ~AtBound("s1")) ~> (~Open("s1") \/ stream_active)

\* ----------------------------------------------------------------- C19
\* C19: the status read excludes the frame-store write: /api/status reads
\* stream_active (line 77) and last_frame_time (line 78) only while no
\* upload is inside its frame_lock critical section.
C19_StatusReadsOutsideWrite ==
  [][(spc \in {"l77", "l78"} /\ spc' # spc) => \A t \in Uploaders : ~MidWrite(t)]_vars

\* ----------------------------------------------------------------- C20
\* C20: when two overlapping successful uploads, the only ones so far,
\* have completed, the stored oil_spill_detected and the stored
\* latest_frame come from the same upload.
C20_FlagAndFrameFromSameUpload ==
  (nreq = 2 /\ \A t \in Uploaders : Answered(t) /\ response[t] = 200) =>
     \E t \in Uploaders :
        latest_frame = frame[t] /\ oil_spill_detected = spill_detected[t]

====
